---- MODULE Spec2Model ----
(***************************************************************************)
(* The default pod state machine of the kubelet crate                      *)
(* (crates/kubelet/src/state/default.rs): the DefaultStateProvider trait   *)
(* with its defaulted hooks, the ten states declared with state!, their    *)
(* step bodies and their status patches, driven by the run loop of the     *)
(* state module.                                                           *)
(***************************************************************************)
EXTENDS Integers, Sequences, FiniteSets, TLC

VARIABLES
    provider,     \* the shared provider: hook name -> how the implementor supplies it
    start,        \* per pod: the state the driver was started with
    cur,          \* per pod: the driver's current state
    pc,           \* per pod: "idle" | "inHook" | "returned" | "done" | "crashed"
    hook,         \* per pod: the hook being awaited, or "none"
    timer,        \* per pod: seconds left on the delay_for the awaited hook sleeps on
    elapsed,      \* per pod: seconds since the awaited hook was invoked
    last,         \* per pod: the last finished step (state, hook, result, return value)
    trace,        \* per pod: the first MaxTrace states the driver entered
    failed,       \* per pod: some hook has returned Err in this run
    completions,  \* per pod: how many times a step returned Complete
    reported,     \* per pod: the status patch last persisted by the driver
    pod,          \* per pod: the Pod value every step borrows (&Pod)
    succeeded,    \* per pod: the hooks that have returned Ok at least once
    cause,        \* per pod: the action hook whose failure is being recovered from
    recent,       \* per pod: the action hooks invoked since a backoff hook last returned Ok
    outcomes      \* per pod: the first MaxTrace results the hooks returned

vars == <<provider, start, cur, pc, hook, timer, elapsed, last, trace, failed,
          completions, reported, pod, succeeded, cause, recent, outcomes>>

-----------------------------------------------------------------------------
(* Bounds of the model *)

\* Length of the recorded prefix of the visited states.
MaxTrace == 6
\* How many times a driver is run again on a machine that completed.
MaxRepeat == 2
\* Seconds the elapsed-time observation keeps counting past a full delay.
Slack == 1

-----------------------------------------------------------------------------
(* Names *)

States == {"Registered", "ImagePull", "ImagePullBackoff", "VolumeMount",
           "VolumeMountBackoff", "Starting", "Running", "Error",
           "Terminated", "Finished"}

Hooks == {"registered", "image_pull", "image_pull_backoff", "volume_mount",
          "volume_mount_backoff", "starting", "running", "error"}

BackoffHooks == {"image_pull_backoff", "volume_mount_backoff", "error"}

ActionHooks == Hooks \ BackoffHooks

\* Transition<S, E>: the three variants a step returns.
Advance(s) == [kind |-> "Advance", target |-> s, result |-> "none"]
ErrorTo(s) == [kind |-> "Error", target |-> s, result |-> "none"]
Complete(r) == [kind |-> "Complete", target |-> "none", result |-> r]

\* anyhow::Result<Transition>: what a step hands back to the driver.
OkT(t) == [tag |-> "Ok", value |-> t]

-----------------------------------------------------------------------------
(* DefaultStateProvider: the defaulted hooks.  Each default is the delay it *)
(* awaits (seconds) and the result it returns.                              *)

registered == [delay |-> 0, result |-> "Ok"]

image_pull == [delay |-> 0, result |-> "Ok"]

\* image_pull_backoff with the delay left out.
image_pull_backoff_NoDelay == [delay |-> 0, result |-> "Ok"]

image_pull_backoff == [delay |-> 30, result |-> "Ok"]

volume_mount == [delay |-> 0, result |-> "Ok"]

volume_mount_backoff == [delay |-> 30, result |-> "Ok"]

starting == [delay |-> 0, result |-> "Ok"]

running == [delay |-> 0, result |-> "Ok"]

error == [delay |-> 30, result |-> "Ok"]

DefaultHook(h) ==
    CASE h = "registered" -> registered
      [] h = "image_pull" -> image_pull
      [] h = "image_pull_backoff" -> image_pull_backoff
      [] h = "volume_mount" -> volume_mount
      [] h = "volume_mount_backoff" -> volume_mount_backoff
      [] h = "starting" -> starting
      [] h = "running" -> running
      [] h = "error" -> error

(* An implementor of the trait keeps a default ("default") or overrides the *)
(* hook: with one that succeeds at once ("ok"), one that always fails       *)
(* ("fails"), or one that may do either ("flaky").                          *)
Supplied == {"default", "ok", "fails", "flaky"}

HookDelay(p, h) == IF p[h] = "default" THEN DefaultHook(h).delay ELSE 0

HookResults(p, h) ==
    CASE p[h] = "default" -> {DefaultHook(h).result}
      [] p[h] = "ok" -> {"Ok"}
      [] p[h] = "fails" -> {"Err"}
      [] p[h] = "flaky" -> {"Ok", "Err"}

-----------------------------------------------------------------------------
(* The ten state! declarations: the declared success and error target types *)

Edges ==
    [s \in States |->
        CASE s = "Registered" -> [advance |-> "ImagePull", error |-> "Error"]
          [] s = "ImagePull" -> [advance |-> "VolumeMount", error |-> "ImagePullBackoff"]
          [] s = "ImagePullBackoff" -> [advance |-> "ImagePull", error |-> "ImagePullBackoff"]
          [] s = "VolumeMount" -> [advance |-> "Starting", error |-> "VolumeMountBackoff"]
          [] s = "VolumeMountBackoff" -> [advance |-> "VolumeMount", error |-> "VolumeMountBackoff"]
          [] s = "Starting" -> [advance |-> "Running", error |-> "Error"]
          [] s = "Running" -> [advance |-> "Finished", error |-> "Error"]
          [] s = "Error" -> [advance |-> "Starting", error |-> "Error"]
          [] s = "Terminated" -> [advance |-> "Terminated", error |-> "Terminated"]
          [] s = "Finished" -> [advance |-> "Finished", error |-> "Finished"]]

\* ImagePullBackoff awaiting the image_pull it guards.
HookOf_BackoffPulls(s) ==
    CASE s = "Registered" -> "registered"
      [] s = "ImagePull" -> "image_pull"
      [] s = "ImagePullBackoff" -> "image_pull"
      [] s = "VolumeMount" -> "volume_mount"
      [] s = "VolumeMountBackoff" -> "volume_mount_backoff"
      [] s = "Starting" -> "starting"
      [] s = "Running" -> "running"
      [] s = "Error" -> "error"
      [] s = "Terminated" -> "none"
      [] s = "Finished" -> "none"

(* The hook each step body awaits ("none": the body awaits nothing). *)
HookOf(s) ==
    CASE s = "Registered" -> "registered"
      [] s = "ImagePull" -> "image_pull"
      [] s = "ImagePullBackoff" -> "image_pull_backoff"
      [] s = "VolumeMount" -> "volume_mount"
      [] s = "VolumeMountBackoff" -> "volume_mount_backoff"
      [] s = "Starting" -> "starting"
      [] s = "Running" -> "running"
      [] s = "Error" -> "error"
      [] s = "Terminated" -> "none"
      [] s = "Finished" -> "none"

(* The step bodies: the match on the hook's result r.  Each returns the     *)
(* value handed to the driver and whether error! logged the failure.        *)
Registered_next(r) ==
    IF r = "Ok" THEN [ret |-> OkT(Advance("ImagePull")), logged |-> FALSE]
    ELSE [ret |-> OkT(ErrorTo("Error")), logged |-> TRUE]

\* ImagePull retrying itself at once, without the backoff state.
ImagePull_next_RetriesAtOnce(r) ==
    IF r = "Ok" THEN [ret |-> OkT(Advance("VolumeMount")), logged |-> FALSE]
    ELSE [ret |-> OkT(ErrorTo("ImagePull")), logged |-> TRUE]

ImagePull_next(r) ==
    IF r = "Ok" THEN [ret |-> OkT(Advance("VolumeMount")), logged |-> FALSE]
    ELSE [ret |-> OkT(ErrorTo("ImagePullBackoff")), logged |-> TRUE]

\* ImagePullBackoff advancing past ImagePull, to a state it does not declare.
ImagePullBackoff_next_Undeclared(r) ==
    IF r = "Ok" THEN [ret |-> OkT(Advance("VolumeMount")), logged |-> FALSE]
    ELSE [ret |-> OkT(ErrorTo("ImagePullBackoff")), logged |-> TRUE]

\* ImagePullBackoff looping on itself whatever image_pull_backoff returns.
ImagePullBackoff_next_SelfLoop(r) ==
    [ret |-> OkT(ErrorTo("ImagePullBackoff")), logged |-> r # "Ok"]

ImagePullBackoff_next(r) ==
    IF r = "Ok" THEN [ret |-> OkT(Advance("ImagePull")), logged |-> FALSE]
    ELSE [ret |-> OkT(ErrorTo("ImagePullBackoff")), logged |-> TRUE]

\* VolumeMount advancing straight to Running.
VolumeMount_next_SkipsStarting(r) ==
    IF r = "Ok" THEN [ret |-> OkT(Advance("Running")), logged |-> FALSE]
    ELSE [ret |-> OkT(ErrorTo("VolumeMountBackoff")), logged |-> TRUE]

VolumeMount_next(r) ==
    IF r = "Ok" THEN [ret |-> OkT(Advance("Starting")), logged |-> FALSE]
    ELSE [ret |-> OkT(ErrorTo("VolumeMountBackoff")), logged |-> TRUE]

\* VolumeMountBackoff resuming at Starting, past the mount it backs off.
VolumeMountBackoff_next_SkipsMount(r) ==
    IF r = "Ok" THEN [ret |-> OkT(Advance("Starting")), logged |-> FALSE]
    ELSE [ret |-> OkT(ErrorTo("VolumeMountBackoff")), logged |-> TRUE]

VolumeMountBackoff_next(r) ==
    IF r = "Ok" THEN [ret |-> OkT(Advance("VolumeMount")), logged |-> FALSE]
    ELSE [ret |-> OkT(ErrorTo("VolumeMountBackoff")), logged |-> TRUE]

\* Starting propagating the hook's error with ? instead of matching on it.
Starting_next_Propagates(r) ==
    IF r = "Ok" THEN [ret |-> OkT(Advance("Running")), logged |-> FALSE]
    ELSE [ret |-> [tag |-> "Err", value |-> Complete("none")], logged |-> FALSE]

Starting_next(r) ==
    IF r = "Ok" THEN [ret |-> OkT(Advance("Running")), logged |-> FALSE]
    ELSE [ret |-> OkT(ErrorTo("Error")), logged |-> TRUE]

\* Running giving the pod up as Terminated when the running hook fails.
Running_next_Terminates(r) ==
    IF r = "Ok" THEN [ret |-> OkT(Advance("Finished")), logged |-> FALSE]
    ELSE [ret |-> OkT(ErrorTo("Terminated")), logged |-> TRUE]

\* Running returning the Advance variant on failure.
Running_next_ErrAdvances(r) ==
    IF r = "Ok" THEN [ret |-> OkT(Advance("Finished")), logged |-> FALSE]
    ELSE [ret |-> OkT(Advance("Error")), logged |-> TRUE]

Running_next(r) ==
    IF r = "Ok" THEN [ret |-> OkT(Advance("Finished")), logged |-> FALSE]
    ELSE [ret |-> OkT(ErrorTo("Error")), logged |-> TRUE]

\* Error resuming at Running, past Starting.
Error_next_ToRunning(r) ==
    IF r = "Ok" THEN [ret |-> OkT(Advance("Running")), logged |-> FALSE]
    ELSE [ret |-> OkT(ErrorTo("Error")), logged |-> TRUE]

\* Error staying in Error when the error hook succeeds.
Error_next_Stuck(r) ==
    IF r = "Ok" THEN [ret |-> OkT(Advance("Error")), logged |-> FALSE]
    ELSE [ret |-> OkT(ErrorTo("Error")), logged |-> TRUE]

Error_next(r) ==
    IF r = "Ok" THEN [ret |-> OkT(Advance("Starting")), logged |-> FALSE]
    ELSE [ret |-> OkT(ErrorTo("Error")), logged |-> TRUE]

Terminated_next(r) == [ret |-> OkT(Complete("Ok")), logged |-> FALSE]

\* Finished completing with a failure result.
Finished_next_Fails(r) == [ret |-> OkT(Complete("Err")), logged |-> FALSE]

\* Finished advancing to itself instead of completing.
Finished_next_Loops(r) == [ret |-> OkT(Advance("Finished")), logged |-> FALSE]

Finished_next(r) == [ret |-> OkT(Complete("Ok")), logged |-> FALSE]

StepOf(s, r) ==
    CASE s = "Registered" -> Registered_next(r)
      [] s = "ImagePull" -> ImagePull_next(r)
      [] s = "ImagePullBackoff" -> ImagePullBackoff_next(r)
      [] s = "VolumeMount" -> VolumeMount_next(r)
      [] s = "VolumeMountBackoff" -> VolumeMountBackoff_next(r)
      [] s = "Starting" -> Starting_next(r)
      [] s = "Running" -> Running_next(r)
      [] s = "Error" -> Error_next(r)
      [] s = "Terminated" -> Terminated_next(r)
      [] s = "Finished" -> Finished_next(r)

-----------------------------------------------------------------------------
(* The status bodies: the JSON patch each state builds. *)

Patch(phase, reason) ==
    [metadata |-> [resourceVersion |-> ""],
     status |-> [phase |-> phase, reason |-> reason,
                 containerStatuses |-> <<>>, initContainerStatuses |-> <<>>]]

Registered_status == Patch("Pending", "Registered")

ImagePull_status == Patch("Pending", "ImagePull")

\* ImagePullBackoff reporting the pull failure as phase Failed.
ImagePullBackoff_status_Failed == Patch("Failed", "ImagePullBackoff")

ImagePullBackoff_status == Patch("Pending", "ImagePullBackoff")

VolumeMount_status == Patch("Pending", "VolumeMount")

VolumeMountBackoff_status == Patch("Pending", "VolumeMountBackoff")

Starting_status == Patch("Pending", "Starting")

Running_status == Patch("Running", "Running")

\* Error reporting the phase of the states around it.
Error_status_Pending == Patch("Pending", "Error")

Error_status == Patch("Failed", "Error")

Terminated_status == Patch("Failed", "Failed")

Finished_status == Patch("Succeeded", "Failed")

StatusOf(s) ==
    CASE s = "Registered" -> Registered_status
      [] s = "ImagePull" -> ImagePull_status
      [] s = "ImagePullBackoff" -> ImagePullBackoff_status
      [] s = "VolumeMount" -> VolumeMount_status
      [] s = "VolumeMountBackoff" -> VolumeMountBackoff_status
      [] s = "Starting" -> Starting_status
      [] s = "Running" -> Running_status
      [] s = "Error" -> Error_status
      [] s = "Terminated" -> Terminated_status
      [] s = "Finished" -> Finished_status

-----------------------------------------------------------------------------
(* The machine *)

Pods == DOMAIN cur

NoStep == [state |-> "none", hook |-> "none", result |-> "none",
           ret |-> [tag |-> "none", value |-> Complete("none")],
           logged |-> FALSE, elapsed |-> 0]

DefaultProvider == [h \in Hooks |-> "default"]

Overriding(H, how) == [h \in Hooks |-> IF h \in H THEN how ELSE "default"]

(* The implementations the machine is driven with: the defaults alone, the  *)
(* action hooks overridden by ones that may fail (the backoff delays kept), *)
(* every hook overridden by one that may fail, an image_pull that always    *)
(* fails (with the default image_pull_backoff, and with one that may fail),  *)
(* and the backoff delays overridden to succeed at once.                    *)
Providers ==
    {DefaultProvider,
     Overriding(ActionHooks, "flaky"),
     Overriding(Hooks, "flaky"),
     Overriding({"image_pull"}, "fails"),
     [h \in Hooks |-> IF h = "image_pull" THEN "fails"
                      ELSE IF h = "image_pull_backoff" THEN "flaky" ELSE "default"],
     [h \in Hooks |-> IF h \in BackoffHooks THEN "ok" ELSE "flaky"]}

InitWith(P, S, Provs) ==
    /\ provider \in Provs
    /\ start \in [P -> S]
    /\ cur = start
    /\ pc = [w \in P |-> "idle"]
    /\ hook = [w \in P |-> "none"]
    /\ timer = [w \in P |-> 0]
    /\ elapsed = [w \in P |-> 0]
    /\ last = [w \in P |-> NoStep]
    /\ trace = [w \in P |-> <<start[w]>>]
    /\ failed = [w \in P |-> FALSE]
    /\ completions = [w \in P |-> 0]
    /\ reported = [w \in P |-> StatusOf(start[w])]
    /\ pod = [w \in P |-> [name |-> w]]
    /\ succeeded = [w \in P |-> {}]
    /\ cause = [w \in P |-> "none"]
    /\ recent = [w \in P |-> {}]
    /\ outcomes = [w \in P |-> <<>>]

Init == InitWith({1}, States, Providers)

Min(a, b) == IF a < b THEN a ELSE b

Record(tr, s) == IF Len(tr) < MaxTrace THEN Append(tr, s) ELSE tr

\* A sleep that holds the thread (std::thread::sleep) in place of the await.
AwaitBlocksThread_Sleep == TRUE

(* tokio::time::delay_for(..).await suspends the awaiting task alone: the    *)
(* thread it ran on is free to run the other pods' tasks.                   *)
AwaitBlocksThread == FALSE

Runnable(w) ==
    ~(AwaitBlocksThread /\ \E v \in Pods \ {w} : pc[v] = "inHook" /\ timer[v] > 0)

(* The driver calls the current state's step.  A body that awaits a hook    *)
(* suspends on it; the two terminal bodies return at once.                  *)
Call(w) ==
    /\ pc[w] = "idle"
    /\ Runnable(w)
    /\ IF HookOf(cur[w]) = "none"
       THEN /\ pc' = [pc EXCEPT ![w] = "returned"]
            /\ last' = [last EXCEPT ![w] =
                  [state |-> cur[w], hook |-> "none", result |-> "none",
                   ret |-> StepOf(cur[w], "none").ret,
                   logged |-> StepOf(cur[w], "none").logged, elapsed |-> 0]]
            /\ UNCHANGED <<hook, timer, elapsed, recent>>
       ELSE /\ pc' = [pc EXCEPT ![w] = "inHook"]
            /\ hook' = [hook EXCEPT ![w] = HookOf(cur[w])]
            /\ timer' = [timer EXCEPT ![w] = HookDelay(provider, HookOf(cur[w]))]
            /\ elapsed' = [elapsed EXCEPT ![w] = 0]
            /\ recent' = [recent EXCEPT ![w] = @ \cup ({HookOf(cur[w])} \cap ActionHooks)]
            /\ UNCHANGED last
    /\ UNCHANGED <<provider, start, cur, trace, failed, completions, reported,
                   pod, succeeded, cause, outcomes>>

(* A second passes: every running delay_for comes a second closer to its    *)
(* deadline, and every awaited hook has been running a second longer.       *)
Tick ==
    /\ \E w \in Pods : pc[w] = "inHook" /\ timer[w] > 0
    /\ timer' = [w \in Pods |-> IF timer[w] > 0 THEN timer[w] - 1 ELSE 0]
    /\ elapsed' = [w \in Pods |->
          IF pc[w] = "inHook"
          THEN Min(elapsed[w] + 1, HookDelay(provider, hook[w]) + Slack)
          ELSE elapsed[w]]
    /\ UNCHANGED <<provider, start, cur, pc, hook, last, trace, failed,
                   completions, reported, pod, succeeded, cause, recent, outcomes>>

\* The failure kept in one flag shared by every pod's machine.
HookReturn_SharedFlag(w, r) ==
    /\ pc[w] = "inHook"
    /\ Runnable(w)
    /\ timer[w] = 0
    /\ r \in HookResults(provider, hook[w])
    /\ pc' = [pc EXCEPT ![w] = "returned"]
    /\ last' = [last EXCEPT ![w] =
          [state |-> cur[w], hook |-> hook[w], result |-> r,
           ret |-> StepOf(cur[w], r).ret, logged |-> StepOf(cur[w], r).logged,
           elapsed |-> elapsed[w]]]
    /\ hook' = [hook EXCEPT ![w] = "none"]
    /\ failed' = [v \in Pods |-> failed[v] \/ r = "Err"]
    /\ succeeded' = [succeeded EXCEPT ![w] = IF r = "Ok" THEN @ \cup {hook[w]} ELSE @]
    /\ cause' = [cause EXCEPT ![w] =
          IF hook[w] \in ActionHooks THEN (IF r = "Err" THEN hook[w] ELSE "none") ELSE @]
    /\ recent' = [recent EXCEPT ![w] =
          IF hook[w] \in BackoffHooks /\ r = "Ok" THEN {} ELSE @]
    /\ outcomes' = [outcomes EXCEPT ![w] = Record(@, r)]
    /\ UNCHANGED <<provider, start, cur, timer, elapsed, trace, completions, reported, pod>>

(* The awaited hook returns r; the body's match turns it into the step's    *)
(* return value. *)
HookReturn(w, r) ==
    /\ pc[w] = "inHook"
    /\ Runnable(w)
    /\ timer[w] = 0
    /\ r \in HookResults(provider, hook[w])
    /\ pc' = [pc EXCEPT ![w] = "returned"]
    /\ last' = [last EXCEPT ![w] =
          [state |-> cur[w], hook |-> hook[w], result |-> r,
           ret |-> StepOf(cur[w], r).ret, logged |-> StepOf(cur[w], r).logged,
           elapsed |-> elapsed[w]]]
    /\ hook' = [hook EXCEPT ![w] = "none"]
    /\ failed' = [failed EXCEPT ![w] = failed[w] \/ r = "Err"]
    /\ succeeded' = [succeeded EXCEPT ![w] = IF r = "Ok" THEN @ \cup {hook[w]} ELSE @]
    /\ cause' = [cause EXCEPT ![w] =
          IF hook[w] \in ActionHooks THEN (IF r = "Err" THEN hook[w] ELSE "none") ELSE @]
    /\ recent' = [recent EXCEPT ![w] =
          IF hook[w] \in BackoffHooks /\ r = "Ok" THEN {} ELSE @]
    /\ outcomes' = [outcomes EXCEPT ![w] = Record(@, r)]
    /\ UNCHANGED <<provider, start, cur, timer, elapsed, trace, completions, reported, pod>>

HookOk(w) == HookReturn(w, "Ok")

HookErr(w) == HookReturn(w, "Err")

(* The driver takes the step's return value: on Advance or Error it enters  *)
(* the target state and persists that state's patch; on Complete it stops;  *)
(* an Err from the step would end the loop with that error.                 *)
Apply(w) ==
    /\ pc[w] = "returned"
    /\ Runnable(w)
    /\ LET r == last[w].ret IN
       IF r.tag # "Ok"
       THEN /\ pc' = [pc EXCEPT ![w] = "crashed"]
            /\ UNCHANGED <<cur, trace, reported, completions>>
       ELSE IF r.value.kind = "Complete"
       THEN /\ pc' = [pc EXCEPT ![w] = "done"]
            /\ completions' = [completions EXCEPT ![w] = Min(completions[w] + 1, MaxRepeat + 1)]
            /\ UNCHANGED <<cur, trace, reported>>
       ELSE /\ pc' = [pc EXCEPT ![w] = "idle"]
            /\ cur' = [cur EXCEPT ![w] = r.value.target]
            /\ trace' = [trace EXCEPT ![w] = Record(trace[w], r.value.target)]
            /\ reported' = [reported EXCEPT ![w] = StatusOf(r.value.target)]
            /\ UNCHANGED completions
    /\ UNCHANGED <<provider, start, hook, timer, elapsed, last, failed,
                   pod, succeeded, cause, recent, outcomes>>

(* A driver is run again on a machine that has completed. *)
Redrive(w) ==
    /\ pc[w] = "done"
    /\ completions[w] <= MaxRepeat
    /\ pc' = [pc EXCEPT ![w] = "idle"]
    /\ UNCHANGED <<provider, start, cur, hook, timer, elapsed, last, trace, failed,
                   completions, reported, pod, succeeded, cause, recent, outcomes>>

Next ==
    \/ \E w \in Pods : Call(w)
    \/ \E w \in Pods : HookOk(w)
    \/ \E w \in Pods : HookErr(w)
    \/ \E w \in Pods : Apply(w)
    \/ \E w \in Pods : Redrive(w)
    \/ Tick

Spec == Init /\ [][Next]_vars

(* The runs of the driver as the node starts it: from Registered. *)
RunInit == InitWith({1}, {"Registered"}, Providers)

RunSpec == RunInit /\ [][Next]_vars

-----------------------------------------------------------------------------
(* Properties *)

NonTerminal == {"Registered", "ImagePull", "ImagePullBackoff", "VolumeMount",
                "VolumeMountBackoff", "Starting", "Running", "Error"}

Terminal == {"Terminated", "Finished"}

Stepped(w) == last[w].state # "none"

\* C1: for each of the eight non-terminal states a step maps the hook's
\* outcome to the transition of the lifecycle table: success yields
\* Advance(advance-target), failure yields Error(error-target); Advance is
\* never returned on failure and Error never on success.
C1_Table ==
    [s \in NonTerminal |->
        CASE s = "Registered" -> <<"ImagePull", "Error">>
          [] s = "ImagePull" -> <<"VolumeMount", "ImagePullBackoff">>
          [] s = "ImagePullBackoff" -> <<"ImagePull", "ImagePullBackoff">>
          [] s = "VolumeMount" -> <<"Starting", "VolumeMountBackoff">>
          [] s = "VolumeMountBackoff" -> <<"VolumeMount", "VolumeMountBackoff">>
          [] s = "Starting" -> <<"Running", "Error">>
          [] s = "Running" -> <<"Finished", "Error">>
          [] s = "Error" -> <<"Starting", "Error">>]

C1_StepFollowsTable ==
    \A w \in Pods :
        last[w].state \in NonTerminal =>
            /\ last[w].result \in {"Ok", "Err"}
            /\ last[w].result = "Ok" =>
                  last[w].ret = OkT(Advance(C1_Table[last[w].state][1]))
            /\ last[w].result = "Err" =>
                  last[w].ret = OkT(ErrorTo(C1_Table[last[w].state][2]))

C1_Witness ==
    \E w \in Pods :
        /\ last[w].state = "Running"
        /\ last[w].result = "Err"
        /\ last[w].ret = OkT(ErrorTo("Error"))
        /\ cur[w] = "Error"

\* C2: when every hook invocation succeeds, the machine started in Registered
\* visits exactly Registered, ImagePull, VolumeMount, Starting, Running,
\* Finished and then stops with Complete(Ok(())); it enters no backoff state
\* and no Error state.
C2_Path == <<"Registered", "ImagePull", "VolumeMount", "Starting", "Running", "Finished">>

C2_SuccessPath ==
    \A w \in Pods :
        (start[w] = "Registered" /\ ~failed[w]) =>
            /\ Len(trace[w]) <= Len(C2_Path)
            /\ trace[w] = SubSeq(C2_Path, 1, Len(trace[w]))
            /\ cur[w] = trace[w][Len(trace[w])]
            /\ cur[w] \notin {"ImagePullBackoff", "VolumeMountBackoff", "Error"}
            /\ pc[w] # "crashed"
            /\ pc[w] = "done" =>
                  /\ trace[w] = C2_Path
                  /\ last[w].ret = OkT(Complete("Ok"))
            /\ (pc[w] = "returned" /\ last[w].ret.value.kind = "Complete") =>
                  trace[w] = C2_Path

C2_Witness ==
    \E w \in Pods :
        /\ start[w] = "Registered"
        /\ ~failed[w]
        /\ pc[w] = "done"
        /\ trace[w] = C2_Path

\* C3: the current state is always one of the ten declared states, every
\* transition a step returns targets the stepping state's declared
\* advance-target or error-target (or is Complete), and no step moves the
\* machine to a state outside those two declared edges.
C3_Closed ==
    \A w \in Pods :
        /\ cur[w] \in States
        /\ Stepped(w) =>
              /\ last[w].ret.tag = "Ok"
              /\ \/ last[w].ret.value.kind = "Complete"
                 \/ /\ last[w].ret.value.kind \in {"Advance", "Error"}
                    /\ last[w].ret.value.target \in
                          {Edges[last[w].state].advance, Edges[last[w].state].error}

C3_Moves ==
    \A w \in Pods :
        cur'[w] # cur[w] => cur'[w] \in {Edges[cur[w]].advance, Edges[cur[w]].error}

C3_GraphClosure == [] C3_Closed /\ [][C3_Moves]_vars

C3_Witness ==
    \E w \in Pods :
        /\ start[w] = "Registered"
        /\ last[w].state = "VolumeMount"
        /\ last[w].result = "Err"
        /\ cur[w] = "VolumeMountBackoff"

\* C4: whenever the current state is Finished or Terminated, every step,
\* however often it is repeated, returns Complete and invokes no provider
\* hook.
C4_TerminalState ==
    \A w \in Pods :
        /\ cur[w] \in Terminal =>
              /\ pc[w] # "inHook"
              /\ hook[w] = "none"
              /\ pc[w] \in {"returned", "done"} =>
                    /\ last[w].state = cur[w]
                    /\ last[w].hook = "none"
                    /\ last[w].ret = OkT(Complete("Ok"))
        /\ completions[w] > 0 => cur[w] \in Terminal

C4_Stays == \A w \in Pods : cur[w] \in Terminal => cur'[w] = cur[w]

C4_TerminalIdempotence == [] C4_TerminalState /\ [][C4_Stays]_vars

C4_Witness ==
    \E w \in Pods :
        /\ start[w] = "Registered"
        /\ cur[w] = "Finished"
        /\ completions[w] >= 2
        /\ pc[w] = "done"

\* C5 (as stated): with a provider whose image_pull always fails, a step of
\* ImagePullBackoff re-enters ImagePullBackoff rather than advancing to
\* ImagePull.
C5_Original ==
    \A w \in Pods :
        (provider["image_pull"] = "fails" /\ last[w].state = "ImagePullBackoff") =>
            /\ last[w].ret.value.kind = "Error"
            /\ last[w].ret.value.target = "ImagePullBackoff"

\* C5 (amended): with a provider whose image_pull always fails, a step of
\* ImagePull returns Error(ImagePullBackoff); a step of ImagePullBackoff
\* awaits image_pull_backoff alone, never image_pull, and re-enters
\* ImagePullBackoff only when image_pull_backoff itself fails: when it
\* succeeds, as the default does, the step returns Advance(ImagePull).
C5_FailureRouting ==
    \A w \in Pods :
        provider["image_pull"] = "fails" =>
            /\ last[w].state = "ImagePull" =>
                  /\ last[w].hook = "image_pull"
                  /\ last[w].result = "Err"
                  /\ last[w].ret = OkT(ErrorTo("ImagePullBackoff"))
            /\ last[w].state = "ImagePullBackoff" =>
                  /\ last[w].hook = "image_pull_backoff"
                  /\ last[w].result = "Ok" => last[w].ret = OkT(Advance("ImagePull"))
                  /\ last[w].result = "Err" => last[w].ret = OkT(ErrorTo("ImagePullBackoff"))
            /\ cur[w] = "ImagePullBackoff" => hook[w] \in {"none", "image_pull_backoff"}

C5_Witness ==
    \E w \in Pods :
        /\ provider["image_pull"] = "fails"
        /\ provider["image_pull_backoff"] = "default"
        /\ start[w] = "Registered"
        /\ last[w].state = "ImagePullBackoff"
        /\ last[w].result = "Ok"
        /\ cur[w] = "ImagePull"
        /\ Len(trace[w]) >= 4

\* C6 (as stated): the status patch reason of every one of the ten states
\* equals that state's own name; so does the reason of the patch persisted
\* for whatever state the machine is in.
C6_ReasonIsStateName ==
    \A w \in Pods :
        /\ StatusOf(cur[w]).status.reason = cur[w]
        /\ reported[w].status.reason = cur[w]

\* C7: the phase in each state's status patch is the one of the lifecycle
\* table: Pending for Registered, ImagePull, ImagePullBackoff, VolumeMount,
\* VolumeMountBackoff and Starting; Running for Running; Failed for Error and
\* Terminated; Succeeded for Finished; every reported phase is one of
\* Pending, Running, Succeeded, Failed.
C7_Phase(s) ==
    CASE s \in {"Registered", "ImagePull", "ImagePullBackoff", "VolumeMount",
                "VolumeMountBackoff", "Starting"} -> "Pending"
      [] s = "Running" -> "Running"
      [] s \in {"Error", "Terminated"} -> "Failed"
      [] s = "Finished" -> "Succeeded"

C7_PhaseConsistency ==
    \A w \in Pods :
        /\ StatusOf(cur[w]).status.phase = C7_Phase(cur[w])
        /\ reported[w].status.phase = C7_Phase(cur[w])
        /\ reported[w].status.phase \in {"Pending", "Running", "Succeeded", "Failed"}

C7_Witness ==
    \E w \in Pods :
        /\ start[w] = "Registered"
        /\ cur[w] = "Error"
        /\ last[w].state = "Running"
        /\ reported[w].status.phase = "Failed"

\* C8: a step of any state never returns an error to the driver, a failing
\* hook always produces an Error(target) transition, the machine stops only
\* by a Complete returned from a step of Finished or Terminated, and after
\* any hook failures the machine is still in a declared state and able to
\* take a further step.
C8_NoFatalError ==
    \A w \in Pods :
        /\ cur[w] \in States
        /\ pc[w] # "crashed"
        /\ Stepped(w) => last[w].ret.tag = "Ok"
        /\ last[w].result = "Err" =>
              /\ last[w].ret.value.kind = "Error"
              /\ last[w].ret.value.target \in States
        /\ pc[w] = "done" =>
              /\ cur[w] \in Terminal
              /\ last[w].state = cur[w]
              /\ last[w].ret.value.kind = "Complete"
        /\ (Stepped(w) /\ last[w].ret.value.kind = "Complete") => last[w].state \in Terminal
        /\ (failed[w] /\ pc[w] = "idle") => ENABLED Call(w)
        /\ (failed[w] /\ pc[w] = "returned") => ENABLED Apply(w)

C8_Witness ==
    \E w \in Pods :
        /\ start[w] = "Registered"
        /\ last[w].state = "Error"
        /\ last[w].result = "Err"
        /\ cur[w] = "Error"
        /\ pc[w] = "inHook"

-----------------------------------------------------------------------------
(* Liveness.  The driver's loop and the timer are scheduled (weak fairness);*)
(* an awaited hook returns; and a hook that is invoked again and again and  *)
(* can succeed does succeed again and again (strong fairness, per hook).    *)

LivePods == {1}

LiveInit == InitWith(LivePods, {"Registered"}, Providers)

HookSucceeds(w, h) == hook[w] = h /\ HookOk(w)

Fairness ==
    /\ WF_vars(Tick)
    /\ \A w \in LivePods :
          /\ WF_vars(Call(w))
          /\ WF_vars(Apply(w))
          /\ WF_vars(HookOk(w) \/ HookErr(w))
          /\ \A h \in Hooks : SF_vars(HookSucceeds(w, h))

LiveSpec == LiveInit /\ [][Next]_vars /\ Fairness

AlwaysFailing == {h \in Hooks : provider[h] = "fails"}

FinishedAndComplete(w) == pc[w] = "done" /\ cur[w] = "Finished"

\* C9: if every hook that is invoked infinitely often also succeeds
\* infinitely often and every hook invocation returns, every run started in
\* Registered eventually reaches Finished and stops with Complete; without
\* that, the machine never gives up: while a hook (image_pull) keeps failing
\* the machine keeps taking steps and never reaches Complete.
C9_Liveness ==
    \A w \in LivePods :
        /\ (start[w] = "Registered" /\ AlwaysFailing = {}) => <>FinishedAndComplete(w)
        /\ (start[w] = "Registered" /\ "image_pull" \in AlwaysFailing) =>
              /\ [](pc[w] # "done" /\ cur[w] \notin Terminal)
              /\ []<>(pc[w] = "inHook" /\ hook[w] = "image_pull")

C9_Witness ==
    \E w \in Pods :
        /\ start[w] = "Registered"
        /\ failed[w]
        /\ last[w].state = "Finished"
        /\ FinishedAndComplete(w)

\* C10: with the default hooks, a step of ImagePullBackoff,
\* VolumeMountBackoff or Error does not return before the full 30 seconds
\* have elapsed since the hook was invoked, it then returns Advance, and
\* between the invocation and the return no other hook is invoked for the
\* same workload.
C10_Returned ==
    \A w \in Pods :
        /\ (last[w].hook \in BackoffHooks /\ provider[last[w].hook] = "default") =>
              /\ last[w].state \in {"ImagePullBackoff", "VolumeMountBackoff", "Error"}
              /\ last[w].elapsed >= 30
              /\ last[w].result = "Ok"
              /\ last[w].ret.tag = "Ok"
              /\ last[w].ret.value.kind = "Advance"
        /\ (pc[w] = "inHook" /\ hook[w] \in BackoffHooks /\ provider[hook[w]] = "default") =>
              timer[w] + elapsed[w] >= 30

C10_OneHook ==
    \A w \in Pods :
        pc[w] = "inHook" => (hook'[w] = hook[w] \/ (hook'[w] = "none" /\ pc'[w] = "returned"))

C10_BackoffDelay == [] C10_Returned /\ [][C10_OneHook]_vars

C10_Witness ==
    \E w \in Pods :
        /\ start[w] = "Registered"
        /\ provider["error"] = "default"
        /\ last[w].hook = "error"
        /\ last[w].elapsed >= 30
        /\ last[w].ret = OkT(Advance("Starting"))
        /\ pc[w] = "returned"

-----------------------------------------------------------------------------
(* Two workloads on one node: two machines started in Registered, sharing   *)
(* one provider, each driven by its own loop.  The provider's registered    *)
(* (and, in the second, starting and running) may fail; the backoff hooks   *)
(* are the defaults, or succeed at once.                                    *)

MultiPods == {1, 2}

MultiProviders ==
    {Overriding({"registered"}, "flaky"),
     [h \in Hooks |-> IF h \in {"registered", "starting", "running"} THEN "flaky"
                      ELSE IF h \in BackoffHooks THEN "ok" ELSE "default"]}

MultiInit == InitWith(MultiPods, {"Registered"}, MultiProviders)

MultiSpec == MultiInit /\ [][Next]_vars

(* The same two workloads under fair scheduling, with the default backoff   *)
(* delays and a registered hook that may fail.                              *)
MultiLiveInit == InitWith(MultiPods, {"Registered"}, {Overriding({"registered"}, "flaky")})

MultiFairness ==
    /\ WF_vars(Tick)
    /\ \A w \in MultiPods :
          /\ WF_vars(Call(w))
          /\ WF_vars(Apply(w))
          /\ WF_vars(HookOk(w) \/ HookErr(w))
          /\ SF_vars(HookSucceeds(w, "registered"))

MultiLiveSpec == MultiLiveInit /\ [][Next]_vars /\ MultiFairness

Suspended(w) == pc[w] = "inHook" /\ hook[w] \in BackoffHooks /\ timer[w] > 0

\* C11: with two workload machines sharing one provider, a machine suspended
\* inside a backoff hook never prevents the other machine from taking its
\* steps and reaching Complete, and each workload has at most one step in
\* execution at a time.
C11_NotBlocked ==
    \A w \in Pods : \A v \in Pods \ {w} :
        Suspended(w) =>
            /\ pc[v] = "idle" => ENABLED Call(v)
            /\ pc[v] = "returned" => ENABLED Apply(v)
            /\ (pc[v] = "inHook" /\ timer[v] = 0) => ENABLED (HookOk(v) \/ HookErr(v))

C11_OneStep ==
    \A w \in Pods :
        /\ pc[w] \in {"inHook", "returned"} => ~ENABLED Call(w)
        /\ pc[w] = "inHook" <=> hook[w] # "none"

Phase(w) == reported[w].status.phase

\* C12 (as stated): once a patch with phase Succeeded or Failed has been
\* reported, no later reported patch carries a different phase.
C12_Original ==
    [][\A w \in Pods :
          Phase(w) \in {"Succeeded", "Failed"} => Phase(w)' = Phase(w)]_vars

\* C12 (amended): once Succeeded has been reported no later patch carries a
\* different phase; a reported Failed is followed by a different phase only
\* when the Error state advances to Starting (its error hook returned Ok),
\* and that phase is Pending.
C12_PhaseStep ==
    \A w \in Pods :
        /\ Phase(w) = "Succeeded" => Phase(w)' = "Succeeded"
        /\ (Phase(w) = "Failed" /\ Phase(w)' # "Failed") =>
              /\ cur[w] = "Error"
              /\ last[w].hook = "error"
              /\ last[w].result = "Ok"
              /\ cur'[w] = "Starting"
              /\ Phase(w)' = "Pending"

C12_TerminalPhase == [][C12_PhaseStep]_vars

C12_Witness ==
    \E w \in Pods :
        /\ start[w] = "Registered"
        /\ last[w].state = "Error"
        /\ last[w].result = "Ok"
        /\ cur[w] = "Starting"
        /\ pc[w] = "idle"
        /\ Phase(w) = "Pending"
        /\ "starting" \in succeeded[w]

\* C13 (as stated): in every run started in Registered, the starting hook is
\* invoked, and the Running state entered, only after image_pull and
\* volume_mount have each succeeded at least once for that workload.
C13_FixedPhaseOrder ==
    \A w \in Pods :
        (/\ start[w] = "Registered"
         /\ \/ hook[w] = "starting"
            \/ "starting" \in succeeded[w]
            \/ cur[w] = "Running") =>
            {"image_pull", "volume_mount"} \subseteq succeeded[w]

BackoffStates == {"ImagePullBackoff", "VolumeMountBackoff", "Error"}

\* The hook being awaited is the first one invoked since a backoff state
\* advanced.
AfterBackoff(w) ==
    /\ pc[w] = "inHook"
    /\ last[w].state \in BackoffStates
    /\ last[w].ret.value.kind = "Advance"

\* C14 (as stated): whenever a backoff state (ImagePullBackoff,
\* VolumeMountBackoff, Error) advances, the next hook invoked is the action
\* hook whose failure caused the machine to enter that backoff state.
C14_Original ==
    \A w \in Pods : AfterBackoff(w) => hook[w] = cause[w]

\* C14 (amended): when ImagePullBackoff or VolumeMountBackoff advances, the
\* next hook invoked is image_pull, respectively volume_mount, the hook
\* whose failure entered the state; when Error advances the next hook
\* invoked is starting, whichever of registered, starting and running failed.
C14_BackoffRetries ==
    \A w \in Pods :
        AfterBackoff(w) =>
            /\ last[w].state = "ImagePullBackoff" =>
                  (hook[w] = "image_pull" /\ cause[w] = "image_pull")
            /\ last[w].state = "VolumeMountBackoff" =>
                  (hook[w] = "volume_mount" /\ cause[w] = "volume_mount")
            /\ last[w].state = "Error" =>
                  (hook[w] = "starting" /\ cause[w] \in {"registered", "starting", "running"})

C14_Witness ==
    \E w \in Pods :
        /\ AfterBackoff(w)
        /\ last[w].state = "Error"
        /\ cause[w] = "running"
        /\ hook[w] = "starting"

\* C15: between two consecutive invocations of the same action hook for one
\* workload at least one invocation of a backoff hook has completed
\* successfully; every cycle of the graph passes through ImagePullBackoff,
\* VolumeMountBackoff or Error.
C15_Invokes(w, h) == pc[w] = "idle" /\ pc'[w] = "inHook" /\ hook'[w] = h

C15_Step ==
    \A w \in Pods : \A h \in ActionHooks :
        C15_Invokes(w, h) => h \notin recent[w]

C15_Rank ==
    [s \in States \ BackoffStates |->
        CASE s = "Registered" -> 1
          [] s = "ImagePull" -> 2
          [] s = "VolumeMount" -> 3
          [] s = "Starting" -> 4
          [] s = "Running" -> 5
          [] s = "Finished" -> 6
          [] s = "Terminated" -> 6]

\* Outside the three backoff states every edge a step can take leads forward.
C15_NoOtherCycle ==
    \A s \in States \ BackoffStates : \A r \in {"Ok", "Err"} :
        LET t == StepOf(s, r).ret.value IN
            (t.kind # "Complete" /\ t.target \notin BackoffStates) =>
                (t.target \in States /\ C15_Rank[t.target] > C15_Rank[s])

C15_NoHotLoop == [] C15_NoOtherCycle /\ [][C15_Step]_vars

C15_Witness ==
    \E w \in Pods :
        /\ start[w] = "Registered"
        /\ pc[w] = "inHook"
        /\ hook[w] = "image_pull"
        /\ last[w].state = "ImagePullBackoff"
        /\ last[w].result = "Ok"
        /\ recent[w] = {"image_pull"}
        /\ outcomes[w] = <<"Ok", "Err", "Ok">>

\* C16: a step of a non-terminal state invokes exactly one provider hook,
\* once, and it is the hook named after that state; a backoff state never
\* itself invokes the action hook it guards.
C16_Hook ==
    [s \in NonTerminal |->
        CASE s = "Registered" -> "registered"
          [] s = "ImagePull" -> "image_pull"
          [] s = "ImagePullBackoff" -> "image_pull_backoff"
          [] s = "VolumeMount" -> "volume_mount"
          [] s = "VolumeMountBackoff" -> "volume_mount_backoff"
          [] s = "Starting" -> "starting"
          [] s = "Running" -> "running"
          [] s = "Error" -> "error"]

C16_State ==
    \A w \in Pods :
        /\ pc[w] = "inHook" => (cur[w] \in NonTerminal /\ hook[w] = C16_Hook[cur[w]])
        /\ pc[w] # "inHook" => hook[w] = "none"
        /\ last[w].state \in NonTerminal => last[w].hook = C16_Hook[last[w].state]
        /\ cur[w] \in BackoffStates => hook[w] \notin ActionHooks
        /\ last[w].state \in BackoffStates => last[w].hook \in BackoffHooks

\* A step is one invocation: from the call to the return the awaited hook
\* does not change, and the step returns when that hook returns.
C16_Step ==
    \A w \in Pods :
        /\ (pc[w] = "idle" /\ pc'[w] # "idle" /\ cur[w] \in NonTerminal) =>
              (pc'[w] = "inHook" /\ hook'[w] = C16_Hook[cur[w]])
        /\ (pc[w] = "inHook" /\ hook'[w] # hook[w]) =>
              (pc'[w] = "returned" /\ hook'[w] = "none" /\ last'[w].hook = hook[w])
        /\ (pc[w] = "returned") => hook'[w] = "none"

C16_OneMatchingHook == [] C16_State /\ [][C16_Step]_vars

C16_Witness ==
    \E w \in Pods :
        /\ start[w] = "Registered"
        /\ last[w].state = "VolumeMountBackoff"
        /\ last[w].hook = "volume_mount_backoff"
        /\ pc[w] = "inHook"
        /\ hook[w] = "volume_mount"

\* Everything the model keeps for one workload's machine.
Machine(w) ==
    <<start[w], cur[w], pc[w], hook[w], timer[w], elapsed[w], last[w], trace[w],
      failed[w], completions[w], reported[w], succeeded[w], cause[w], recent[w],
      outcomes[w]>>

StepBy(w) == Call(w) \/ HookOk(w) \/ HookErr(w) \/ Apply(w)

IsPrefix(a, b) == Len(a) <= Len(b) /\ a = SubSeq(b, 1, Len(a))

\* C17: a step of any state changes nothing but that machine: the Pod, the
\* provider and every other workload's machine are left unchanged; and the
\* transition returned depends only on the current state and the hook's
\* success or failure: two runs given the same sequence of hook outcomes
\* visit the same sequence of states and report the same patches.
C17_Frame ==
    \A w \in Pods :
        StepBy(w) =>
            /\ pod' = pod
            /\ provider' = provider
            /\ start'[w] = start[w]
            /\ \A v \in Pods \ {w} : Machine(v)' = Machine(v)

C17_SameOutcomes ==
    \A w \in Pods : \A v \in Pods \ {w} :
        (/\ start[w] = start[v]
         /\ outcomes[w] = outcomes[v]
         /\ Len(outcomes[w]) < MaxTrace) =>
            /\ IsPrefix(trace[w], trace[v]) \/ IsPrefix(trace[v], trace[w])
            /\ Len(trace[w]) = Len(trace[v]) =>
                  (cur[w] = cur[v] /\ reported[w] = reported[v])
            /\ (pc[w] = "returned" /\ pc[v] = "returned"
                    /\ last[w].hook # "none" /\ last[v].hook # "none") =>
                  last[w].ret = last[v].ret

C18_TerminatedUnreachable ==
    \A w \in Pods :
        /\ cur[w] # "Terminated"
        /\ \A i \in 1..Len(trace[w]) : trace[w][i] # "Terminated"
        /\ last[w].state # "Terminated"
        /\ (pc[w] = "done" \/ completions[w] > 0) => cur[w] = "Finished"
        /\ (Stepped(w) /\ last[w].ret.value.kind = "Complete") => last[w].state = "Finished"

C18_Witness ==
    \E w \in Pods :
        /\ start[w] = "Registered"
        /\ pc[w] = "done"
        /\ cur[w] = "Finished"
        /\ {"registered", "running"} \subseteq succeeded[w]
        /\ cause[w] = "none"
        /\ failed[w]

\* C19: every Complete returned by the machine carries Ok(()), from Finished
\* and from Terminated alike and whatever number of hook failures occurred
\* earlier in the run; the machine never completes with a failure result.
C19_CompleteIsOk ==
    \A w \in Pods :
        /\ (Stepped(w) /\ last[w].ret.value.kind = "Complete") =>
              /\ last[w].ret.tag = "Ok"
              /\ last[w].ret.value.result = "Ok"
        /\ pc[w] = "done" => last[w].ret = OkT(Complete("Ok"))
        /\ pc[w] # "crashed"

C19_Witness ==
    \E w \in Pods :
        /\ start[w] = "Registered"
        /\ failed[w]
        /\ Len(outcomes[w]) >= 5
        /\ pc[w] = "done"
        /\ last[w].state = "Finished"
        /\ last[w].ret = OkT(Complete("Ok"))

JustEntered(w) == pc[w] = "idle" /\ Stepped(w) /\ last[w].ret.value.kind # "Complete"

\* C20: in every run started in Registered, with the driver reporting the
\* patch of each state it enters, phase Failed is reported exactly when the
\* machine enters Error, that is after a failure of the registered,
\* starting, running or error hook; a failure of image_pull,
\* image_pull_backoff, volume_mount or volume_mount_backoff is followed by a
\* patch with phase Pending; a workload whose image_pull fails forever never
\* reports Failed.
C20_FailureVisibility ==
    \A w \in Pods :
        /\ Phase(w) = "Failed" <=> cur[w] = "Error"
        /\ JustEntered(w) =>
              /\ cur[w] = "Error" <=>
                    (/\ last[w].result = "Err"
                     /\ last[w].hook \in {"registered", "starting", "running", "error"})
              /\ (/\ last[w].result = "Err"
                  /\ last[w].hook \in {"image_pull", "image_pull_backoff",
                                       "volume_mount", "volume_mount_backoff"}) =>
                    Phase(w) = "Pending"
        /\ (provider["image_pull"] = "fails" /\ Len(trace[w]) >= 2 /\ trace[w][2] = "ImagePull") =>
              (cur[w] \in {"ImagePull", "ImagePullBackoff"} /\ Phase(w) = "Pending")

C20_Witness ==
    \E w \in Pods :
        /\ provider["image_pull"] = "fails"
        /\ JustEntered(w)
        /\ last[w].hook = "image_pull_backoff"
        /\ last[w].result = "Err"
        /\ cur[w] = "ImagePullBackoff"
        /\ Phase(w) = "Pending"

====
